---- MODULE Spec2Model ----
(***************************************************************************)
(* Brain-dump bot (src/app.py): a Flask application whose /webhook route   *)
(* receives a Telegram update, authorizes the chat, asks an LLM            *)
(* (OpenRouter) to classify the text, writes a page to Notion and replies  *)
(* to the chat.  Each route handler is one action; the payload and the     *)
(* outcomes of the three outbound HTTP calls are its inputs.               *)
(*                                                                         *)
(* Python strings are sequences of one-character strings; the text an LLM  *)
(* returns is a sequence of tokens (see json_loads).  JSON/Python values   *)
(* are tagged records [t, v].  A Python call is a record whose field exc   *)
(* names the exception it raised ("" when it returned).                    *)
(***************************************************************************)
EXTENDS Integers, Sequences, FiniteSets, TLC

VARIABLES
    AUTHORIZED_CHAT_ID, \* module global read from the environment (line 20)
    route,              \* route of the last request handled ("" before any)
    data,               \* body of the last request (request.get_json())
    env,                \* outcomes of the outbound calls of the last request
    out,                \* what the last request did: response, calls, results
    earlierFailed       \* some request before the last one ended in an error

vars == <<AUTHORIZED_CHAT_ID, route, data, env, out, earlierFailed>>

---------------------------------------------------------------------------
(* Bounds of the model *)

\* number of distinct chat ids the payloads carry (9, 10, ...)
MaxChatIds == 2

\* longest text of the LLM, in tokens, that is enumerated in full
MaxResponseLen == 3

---------------------------------------------------------------------------
(* JSON / Python values *)

Str(s) == [t |-> "str", v |-> s]
Num(n) == [t |-> "num", v |-> <<n>>]
List(l) == [t |-> "list", v |-> l]
Null == [t |-> "null", v |-> <<>>]
\* a key that the JSON object does not have
Absent == [t |-> "absent", v |-> <<>>]

\* Python truthiness: `if x`, `not x`
Truthy(x) ==
    CASE x.t = "str" -> Len(x.v) > 0
      [] x.t = "list" -> Len(x.v) > 0
      [] x.t = "num" -> x.v[1] # 0
      [] OTHER -> FALSE

\* dict.get(key, default); a dict is a function from its keys
Get(d, k, default) == IF k \in DOMAIN d THEN d[k] ELSE default

EmptyDict == [k \in {} |-> Null]

---------------------------------------------------------------------------
(* Python string operations *)

LowerChar(c) ==
    CASE c = "A" -> "a" [] c = "B" -> "b" [] c = "C" -> "c" [] c = "D" -> "d"
      [] c = "E" -> "e" [] c = "F" -> "f" [] c = "G" -> "g" [] c = "H" -> "h"
      [] c = "I" -> "i" [] c = "J" -> "j" [] c = "K" -> "k" [] c = "L" -> "l"
      [] c = "M" -> "m" [] c = "N" -> "n" [] c = "O" -> "o" [] c = "P" -> "p"
      [] c = "Q" -> "q" [] c = "R" -> "r" [] c = "S" -> "s" [] c = "T" -> "t"
      [] c = "U" -> "u" [] c = "V" -> "v" [] c = "W" -> "w" [] c = "X" -> "x"
      [] c = "Y" -> "y" [] c = "Z" -> "z" [] OTHER -> c

\* str.lower()
Lower(s) == [i \in 1..Len(s) |-> LowerChar(s[i])]

\* str.startswith(p)
StartsWith(s, p) == Len(s) >= Len(p) /\ SubSeq(s, 1, Len(p)) = p

\* `w in s` for strings
Contains(s, w) ==
    \E i \in 1..(Len(s) - Len(w) + 1) : SubSeq(s, i, i + Len(w) - 1) = w

\* str.find(c): 0-based index of the first c, -1 when there is none
Find(s, c) ==
    IF \E i \in 1..Len(s) : s[i] = c
    THEN (CHOOSE i \in 1..Len(s) : s[i] = c /\ \A j \in 1..(i - 1) : s[j] # c) - 1
    ELSE -1

\* str.rfind(c): 0-based index of the last c, -1 when there is none
RFind(s, c) ==
    IF \E i \in 1..Len(s) : s[i] = c
    THEN (CHOOSE i \in 1..Len(s) : s[i] = c /\ \A j \in (i + 1)..Len(s) : s[j] # c) - 1
    ELSE -1

\* one bound of a slice: negative counts from the end, then clamped
SliceIndex(n, i) ==
    IF i < 0 THEN (IF n + i < 0 THEN 0 ELSE n + i) ELSE (IF i > n THEN n ELSE i)

\* s[start:end]
Slice(s, start, end) ==
    SubSeq(s, SliceIndex(Len(s), start) + 1, SliceIndex(Len(s), end))

Digit(d) ==
    CASE d = 0 -> "0" [] d = 1 -> "1" [] d = 2 -> "2" [] d = 3 -> "3"
      [] d = 4 -> "4" [] d = 5 -> "5" [] d = 6 -> "6" [] d = 7 -> "7"
      [] d = 8 -> "8" [] OTHER -> "9"

RECURSIVE StrOfNat(_)
\* str(n) for a natural number n
StrOfNat(n) == IF n < 10 THEN <<Digit(n)>> ELSE StrOfNat(n \div 10) \o <<Digit(n % 10)>>

---------------------------------------------------------------------------
(* process_with_claude *)

T_general == <<"g", "e", "n", "e", "r", "a", "l">>
T_General == <<"G", "e", "n", "e", "r", "a", "l">>
T_Medium == <<"M", "e", "d", "i", "u", "m">>

\* the words of the parse fallback, line 84
TriggerWords ==
    { <<"n", "e", "e", "d">>, <<"b", "u", "y">>, <<"d", "o">>,
      <<"c", "a", "l", "l">>, <<"r", "e", "m", "e", "m", "b", "e", "r">> }

\* any(word in message.lower() for word in [...])
HasTrigger(s) == \E w \in TriggerWords : Contains(Lower(s), w)

\* a call that returned value, having made the outbound calls `calls`
Return(value, calls) == [exc |-> "", value |-> value, calls |-> calls]

\* a call that raised exc after making the outbound calls `calls`
Raise(exc, calls) == [exc |-> exc, value |-> EmptyDict, calls |-> calls]

\* one outbound HTTP request: requests.post(...)
Call(name, chat, kind, arg) == [call |-> name, chat |-> chat, kind |-> kind, arg |-> arg]

\* The text of the model's reply is a sequence of tokens: "{" and "}" are
\* the braces the extraction looks for, "m" is a well-formed list of
\* members whose values have the types the prompt asks for, "t" is a
\* well-formed list of members with "tasks": null, "x" is any other text.
Tokens == {"{", "}", "m", "t", "x"}

\* what the members "m" decode to
GoodDict ==
    [tasks |-> List(<<Str(<<"b", "u", "y">>)>>),
     ideas |-> List(<<>>),
     categories |-> List(<<Str(<<"s", "h", "o", "p">>)>>),
     priority |-> Str(<<"H", "i", "g", "h">>),
     deadline |-> Null,
     content_type |-> Str(<<"t", "a", "s", "k">>),
     cleaned_summary |-> Str(<<"B", "u", "y">>)]

\* what the members "t" decode to
IllTypedDict == [tasks |-> Null, content_type |-> Str(<<"t", "a", "s", "k">>)]

\* json.loads(s): the object s denotes, or JSONDecodeError
json_loads(s) ==
    CASE s = <<"{", "}">> -> Return(EmptyDict, <<>>)
      [] s = <<"{", "m", "}">> -> Return(GoodDict, <<>>)
      [] s = <<"{", "t", "}">> -> Return(IllTypedDict, <<>>)
      [] OTHER -> Raise("JSONDecodeError", <<>>)

\* lines 76-80: the text from the first "{" to the last "}", decoded
ExtractJson(claude_response) ==
    IF claude_response.t # "str"
    THEN Raise("AttributeError", <<>>)
    ELSE LET start == Find(claude_response.v, "{")
             end == RFind(claude_response.v, "}") + 1
             json_str == Slice(claude_response.v, start, end)
         IN  json_loads(json_str)


\* ParseFallback with the tasks of the request fallback
ParseFallback_AlwaysTask(message) ==
    IF message.t # "str"
    THEN Raise("AttributeError", <<>>)
    ELSE Return([tasks |-> List(<<message>>),
                 ideas |-> List(<<>>),
                 categories |-> List(<<Str(T_General)>>),
                 priority |-> Str(T_Medium),
                 deadline |-> Null,
                 content_type |-> Str(T_general),
                 cleaned_summary |-> message], <<>>)

\* lines 83-91: the fallback of the bare except around the extraction
ParseFallback(message) ==
    IF message.t # "str"
    THEN Raise("AttributeError", <<>>)
    ELSE Return([tasks |-> List(IF HasTrigger(message.v) THEN <<message>> ELSE <<>>),
                 ideas |-> List(<<>>),
                 categories |-> List(<<Str(T_General)>>),
                 priority |-> Str(T_Medium),
                 deadline |-> Null,
                 content_type |-> Str(T_general),
                 cleaned_summary |-> message], <<>>)


\* RequestFallback with "cleaned_summary": None
RequestFallback_NoSummary(message) ==
    Return([tasks |-> List(<<message>>),
            ideas |-> List(<<>>),
            categories |-> List(<<Str(T_General)>>),
            priority |-> Str(T_Medium),
            deadline |-> Null,
            content_type |-> Str(T_general),
            cleaned_summary |-> Null], <<>>)

\* lines 95-103: the fallback of `except Exception`
RequestFallback(message) ==
    Return([tasks |-> List(<<message>>),
            ideas |-> List(<<>>),
            categories |-> List(<<Str(T_General)>>),
            priority |-> Str(T_Medium),
            deadline |-> Null,
            content_type |-> Str(T_general),
            cleaned_summary |-> message], <<>>)

\* lines 68-72: the request; its result is the text of the reply.
\* network_error: requests.post raises; http_error: raise_for_status
\* raises; bad_body: response.json() or result['choices'][0]... raises.
LlmRequest(llm) ==
    IF llm.kind = "content" THEN Return(llm.content, <<>>)
    ELSE IF llm.kind = "network_error" THEN Raise("ConnectionError", <<>>)
    ELSE IF llm.kind = "http_error" THEN Raise("HTTPError", <<>>)
    ELSE Raise("KeyError", <<>>)


\* process_with_claude without the outer try/except
process_with_claude_Unguarded(message, llm) ==
    LET post == <<Call("openrouter.post", <<>>, "", message)>>
        req == LlmRequest(llm)
        inner == ExtractJson(req.value)
        fb == ParseFallback(message)
    IN  IF req.exc # ""
        THEN Raise(req.exc, post) @@ [path |-> "raised"]
        ELSE IF inner.exc = ""
        THEN [inner EXCEPT !.calls = post] @@ [path |-> "parsed"]
        ELSE [fb EXCEPT !.calls = post] @@ [path |-> IF fb.exc = "" THEN "parse_fallback" ELSE "raised"]

\* process_with_claude(message): path tells which return statement ran
process_with_claude(message, llm) ==
    LET post == <<Call("openrouter.post", <<>>, "", message)>>
        req == LlmRequest(llm)
        inner == ExtractJson(req.value)
        fb == ParseFallback(message)
        outer == RequestFallback(message)
    IN  IF req.exc # ""
        THEN [outer EXCEPT !.calls = post] @@ [path |-> "request_fallback"]
        ELSE IF inner.exc = ""
        THEN [inner EXCEPT !.calls = post] @@ [path |-> "parsed"]
        ELSE IF fb.exc = ""
        THEN [fb EXCEPT !.calls = post] @@ [path |-> "parse_fallback"]
        ELSE [outer EXCEPT !.calls = post] @@ [path |-> "request_fallback"]

---------------------------------------------------------------------------
(* add_to_notion and send_telegram_message *)

\* [:100] of the page title, lines 120 and 194
TitleLimit == 100

\* x[:n] is defined (str, list); otherwise TypeError
Sliceable(x) == x.t \in {"str", "list"}

\* "\n".join(x) is defined: an iterable of str; otherwise TypeError
Joinable(x) ==
    \/ x.t = "str"
    \/ x.t = "list" /\ \A i \in 1..Len(x.v) : x.v[i].t = "str"

\* `for cat in x` is defined; otherwise TypeError
Iterable(x) == x.t \in {"str", "list"}

\* lines 115-311: the first exception that building the page raises, or ""
BuildPageExc(processed_data, original_message) ==
    IF ~Sliceable(Get(processed_data, "cleaned_summary", original_message))
    THEN "TypeError"
    ELSE IF ~Joinable(Get(processed_data, "tasks", List(<<>>)))
    THEN "TypeError"
    ELSE IF ~Joinable(Get(processed_data, "ideas", List(<<>>)))
    THEN "TypeError"
    ELSE IF ~Iterable(Get(processed_data, "categories", List(<<>>)))
    THEN "TypeError"
    ELSE IF Get(processed_data, "content_type", Str(T_general)).t # "str"
    THEN "AttributeError"
    ELSE ""

\* line 194: the title of the page
PageTitle(processed_data, original_message) ==
    LET summary == Get(processed_data, "cleaned_summary", original_message)
    IN  [summary EXCEPT !.v = Slice(summary.v, 0, TitleLimit)]


\* NotionResult without raise_for_status
NotionResult_NoRaiseForStatus(notion) == notion # "unreachable"

\* lines 313-325: the request to Notion; notion is its outcome:
\* "unreachable" (requests.post raises), "rejected" (raise_for_status
\* raises on a 4xx/5xx status) or "ok"
NotionResult(notion) == notion = "ok"

\* add_to_notion(processed_data, original_message)
add_to_notion(processed_data, original_message, notion) ==
    LET exc == BuildPageExc(processed_data, original_message)
        post == Call("notion.post", <<>>, "", PageTitle(processed_data, original_message))
    IN  IF exc # ""
        THEN [exc |-> exc, value |-> FALSE, calls |-> <<>>]
        ELSE [exc |-> "", value |-> NotionResult(notion), calls |-> <<post>>]

\* send_telegram_message(chat_id, text): the request is made; whether it
\* raises or not the function returns None (lines 387-390)
send_telegram_message(chat_id, kind, arg) ==
    <<Call("telegram.post", chat_id, kind, arg)>>

---------------------------------------------------------------------------
(* telegram_webhook *)

NoPwc == [called |-> FALSE, exc |-> "", path |-> "", value |-> EmptyDict]
NoAtn == [called |-> FALSE, exc |-> "", value |-> FALSE]
NoResponse == [status |-> "", code |-> 0]

\* return jsonify({"status": status}), code
Respond(status, code, calls, pwc, atn) ==
    [exc |-> "", response |-> [status |-> status, code |-> code],
     calls |-> calls, pwc |-> pwc, atn |-> atn]

\* an exception leaves the block
Throw(exc, calls, pwc, atn) ==
    [exc |-> exc, response |-> NoResponse, calls |-> calls, pwc |-> pwc, atn |-> atn]

Pwc(p) == [called |-> TRUE, exc |-> p.exc, path |-> p.path, value |-> p.value]
Atn(n) == [called |-> TRUE, exc |-> n.exc, value |-> n.value]


\* Unauthorized with == for !=
Unauthorized_Inverted(chat_id) ==
    /\ Truthy(AUTHORIZED_CHAT_ID)
    /\ chat_id = AUTHORIZED_CHAT_ID.v

\* Unauthorized with the check left out
Unauthorized_Never(chat_id) == FALSE

\* Unauthorized without `AUTHORIZED_CHAT_ID and`
Unauthorized_NoTruthy(chat_id) == chat_id # AUTHORIZED_CHAT_ID.v

\* line 344: the sender is turned away
Unauthorized(chat_id) ==
    /\ Truthy(AUTHORIZED_CHAT_ID)
    /\ chat_id # AUTHORIZED_CHAT_ID.v


\* TextGate without the test for commands
TextGate_NoCommand(text) ==
    IF ~Truthy(text) THEN "no_text"
    ELSE IF text.t # "str" THEN "raise"
    ELSE ""

\* TextGate without the test for an empty text
TextGate_NoEmptyCheck(text) ==
    IF text.t # "str" THEN "raise"
    ELSE IF StartsWith(text.v, <<"/">>) THEN "command_ignored"
    ELSE ""

\* lines 348-356: the status the handler returns before classifying, or
\* "" when the text goes on to classification; "raise" when
\* text.startswith raises AttributeError
TextGate(text) ==
    IF ~Truthy(text) THEN "no_text"
    ELSE IF text.t # "str" THEN "raise"
    ELSE IF StartsWith(text.v, <<"/">>) THEN "command_ignored"
    ELSE ""

\* lines 360-373: classify, write, reply
Process(chat_id, text, e) ==
    LET p == process_with_claude(text, e.llm)
        n == add_to_notion(p.value, text, e.notion)
        content_type == Get(p.value, "content_type", Str(T_general))
    IN  IF p.exc # ""
        THEN Throw(p.exc, p.calls, Pwc(p), NoAtn)
        ELSE IF n.exc # ""
        THEN Throw(n.exc, p.calls \o n.calls, Pwc(p), Atn(n))
        ELSE IF n.value
        THEN Respond("success", 200,
                     p.calls \o n.calls
                        \o send_telegram_message(chat_id, "confirmation", content_type),
                     Pwc(p), Atn(n))
        ELSE Respond("notion_error", 500,
                     p.calls \o n.calls
                        \o send_telegram_message(chat_id, "failure", Null),
                     Pwc(p), Atn(n))

\* lines 334-373: the body of the try block.  d.shape is "null" (the body
\* decodes to None), "no_message" (an object without "message"),
\* "no_chat" (a message without chat.id) or "ok"
WebhookTry(d, e) ==
    IF d.shape = "null" THEN Throw("TypeError", <<>>, NoPwc, NoAtn)
    ELSE IF d.shape = "no_message" THEN Respond("ignored", 200, <<>>, NoPwc, NoAtn)
    ELSE IF d.shape = "no_chat" THEN Throw("KeyError", <<>>, NoPwc, NoAtn)
    ELSE LET chat_id == StrOfNat(d.id)
             text == IF d.text.t = "absent" THEN Str(<<>>) ELSE d.text
             gate == TextGate(text)
         IN  IF Unauthorized(chat_id)
             THEN Respond("unauthorized", 200, <<>>, NoPwc, NoAtn)
             ELSE IF gate = "raise"
             THEN Throw("AttributeError", <<>>, NoPwc, NoAtn)
             ELSE IF gate # ""
             THEN Respond(gate, 200, <<>>, NoPwc, NoAtn)
             ELSE Process(chat_id, text, e)


\* WebhookExcept that lets the exception leave the handler
WebhookExcept_Reraise(r) ==
    [response |-> NoResponse, raised |-> TRUE,
     caught |-> "", calls |-> r.calls, pwc |-> r.pwc, atn |-> r.atn]

\* lines 375-377: except Exception: return the error response
WebhookExcept(r) ==
    [response |-> [status |-> "error", code |-> 500], raised |-> FALSE,
     caught |-> r.exc, calls |-> r.calls, pwc |-> r.pwc, atn |-> r.atn]

\* telegram_webhook(): what one request to /webhook does
telegram_webhook(d, e) ==
    LET r == WebhookTry(d, e)
    IN  IF r.exc # ""
        THEN WebhookExcept(r)
        ELSE [response |-> r.response, raised |-> FALSE, caught |-> "",
              calls |-> r.calls, pwc |-> r.pwc, atn |-> r.atn]

---------------------------------------------------------------------------
(* test_endpoint *)

T_TestMessage ==
    <<"T", "e", "s", "t", " ", "m", "e", "s", "s", "a", "g", "e">>

\* lines 405-414; the handler has no try block: an exception leaves it and
\* Flask answers 500
test_endpoint(d, e) ==
    LET message == IF d.text.t = "absent" THEN Str(T_TestMessage) ELSE d.text
        p == process_with_claude(message, e.llm)
        n == add_to_notion(p.value, message, e.notion)
        flask500 == [status |-> "internal_server_error", code |-> 500]
    IN  IF d.shape = "null"
        THEN [response |-> flask500, raised |-> TRUE, caught |-> "",
              calls |-> <<>>, pwc |-> NoPwc, atn |-> NoAtn]
        ELSE IF p.exc # ""
        THEN [response |-> flask500, raised |-> TRUE, caught |-> "",
              calls |-> p.calls, pwc |-> Pwc(p), atn |-> NoAtn]
        ELSE IF n.exc # ""
        THEN [response |-> flask500, raised |-> TRUE, caught |-> "",
              calls |-> p.calls \o n.calls, pwc |-> Pwc(p), atn |-> Atn(n)]
        ELSE [response |-> [status |-> "test", code |-> 200], raised |-> FALSE,
              caught |-> "", calls |-> p.calls \o n.calls,
              pwc |-> Pwc(p), atn |-> Atn(n)]

---------------------------------------------------------------------------
(* The requests and the outcomes of the outbound calls *)

T_hi == <<"h", "i">>
T_BUY == <<"B", "U", "Y">>
T_window == <<"w", "i", "n", "d", "o", "w">>
T_start == <<"/", "s", "t", "a", "r", "t">>

ChatIds == 9..(8 + MaxChatIds)

\* the "text" of a Telegram message: missing, empty, a command, a number,
\* and texts without and with a trigger word
TextValues ==
    {Absent, Str(<<>>), Str(T_start), Num(5), Str(T_hi), Str(T_BUY), Str(T_window)}

WebhookPayloads ==
    {[shape |-> s, id |-> 0, text |-> Absent] : s \in {"null", "no_message", "no_chat"}}
        \cup {[shape |-> "no_chat", id |-> 0, text |-> Str(T_hi)]}
        \cup {[shape |-> "ok", id |-> i, text |-> t] : i \in ChatIds, t \in TextValues}

\* the "message" of a body posted to /test
TestPayloads ==
    {[shape |-> "null", id |-> 0, text |-> Absent]}
        \cup {[shape |-> "ok", id |-> 0, text |-> t] :
                t \in {Absent, Str(<<>>), Str(T_start), Num(5), Str(T_hi), Str(T_BUY)}}

\* the sequences over S of length n
SeqsOfLen(S, n) == [1..n -> S]

\* texts the LLM may answer with: every token sequence up to the bound,
\* and a JSON object with commentary on both sides
Responses ==
    UNION {SeqsOfLen(Tokens, n) : n \in 0..MaxResponseLen}
        \cup { <<"x", "{", "m", "}", "x">> }

UnusedLlm == [kind |-> "unused", content |-> Null]

LlmOutcomes ==
    {[kind |-> k, content |-> Null] : k \in {"network_error", "http_error", "bad_body", "content"}}
        \cup {[kind |-> "content", content |-> Str(r)] : r \in Responses}

NotionOutcomes == {"ok", "rejected", "unreachable"}

TelegramOutcomes == {"ok", "unreachable"}

Envs ==
    [llm : LlmOutcomes \cup {UnusedLlm},
     notion : NotionOutcomes \cup {"unused"},
     tg : TelegramOutcomes \cup {"unused"}]

\* some call of o went to `name`
Called(o, name) == \E i \in 1..Len(o.calls) : o.calls[i].call = name

\* e gives an outcome to exactly the outbound calls that o made
Consumed(o, e) ==
    /\ (e.llm.kind # "unused") <=> Called(o, "openrouter.post")
    /\ (e.notion # "unused") <=> Called(o, "notion.post")
    /\ (e.tg # "unused") <=> Called(o, "telegram.post")

NoOut ==
    [response |-> NoResponse, raised |-> FALSE, caught |-> "", calls |-> <<>>,
     pwc |-> NoPwc, atn |-> NoAtn]

NoData == [shape |-> "null", id |-> 0, text |-> Absent]
NoEnv == [llm |-> UnusedLlm, notion |-> "unused", tg |-> "unused"]

\* the request being answered ended in an error
RequestFailed == route # "" /\ (out.raised \/ out.response.code = 500)

---------------------------------------------------------------------------
(* The state machine.  The handlers share no mutable state, so requests *)
(* are taken one at a time: route = "" while the server waits.          *)

Init ==
    /\ AUTHORIZED_CHAT_ID \in {Null, Str(<<>>), Str(<<"1", "0">>)}
    /\ route = ""
    /\ data = NoData
    /\ env = NoEnv
    /\ out = NoOut
    /\ earlierFailed = FALSE

\* POST /webhook
Webhook ==
    /\ route = ""
    /\ \E d \in WebhookPayloads, e \in Envs :
        LET o == telegram_webhook(d, e)
        IN  /\ Consumed(o, e)
            /\ route' = "/webhook"
            /\ data' = d
            /\ env' = e
            /\ out' = o
    /\ UNCHANGED <<AUTHORIZED_CHAT_ID, earlierFailed>>

\* POST /test
Test ==
    /\ route = ""
    /\ \E d \in TestPayloads, e \in Envs :
        LET o == test_endpoint(d, e)
        IN  /\ Consumed(o, e)
            /\ route' = "/test"
            /\ data' = d
            /\ env' = e
            /\ out' = o
    /\ UNCHANGED <<AUTHORIZED_CHAT_ID, earlierFailed>>

\* the response has been sent: the request's locals are gone and the
\* server waits for the next request
Answered ==
    /\ route # ""
    /\ route' = ""
    /\ data' = NoData
    /\ env' = NoEnv
    /\ out' = NoOut
    /\ earlierFailed' = (earlierFailed \/ RequestFailed)
    /\ UNCHANGED AUTHORIZED_CHAT_ID

Next == Webhook \/ Test \/ Answered

Spec == Init /\ [][Next]_vars

---------------------------------------------------------------------------
(* Vocabulary of the properties *)

IsWebhook == route = "/webhook"

\* an authorized chat id is configured and the sender's differs from it
SenderDiffers ==
    /\ IsWebhook
    /\ data.shape = "ok"
    /\ AUTHORIZED_CHAT_ID.t = "str"
    /\ AUTHORIZED_CHAT_ID.v # <<>>
    /\ StrOfNat(data.id) # AUTHORIZED_CHAT_ID.v

\* no classification and no document-store write, called or requested
NoCoreCalls ==
    /\ ~out.pwc.called
    /\ ~out.atn.called
    /\ ~Called(out, "openrouter.post")
    /\ ~Called(out, "notion.post")

\* the kinds of the replies sent to the chat, in order
ReplyIndexes == {i \in 1..Len(out.calls) : out.calls[i].call = "telegram.post"}
ReplyKinds == {out.calls[i].kind : i \in ReplyIndexes}

\* the text handed to process_with_claude (its request is the first call)
ClassifiedText == out.calls[1].arg

\* the text is a non-empty string that is not a command
PlainText(text) == text.t = "str" /\ Len(text.v) > 0 /\ text.v[1] # "/"

FallbackPaths == {"parse_fallback", "request_fallback"}

\* process_with_claude ran on a string and fell back
FellBack ==
    /\ out.pwc.called
    /\ out.pwc.exc = ""
    /\ out.pwc.path \in FallbackPaths
    /\ ClassifiedText.t = "str"

\* add_to_notion returned this boolean
WriteReturned(b) == out.atn.called /\ out.atn.exc = "" /\ out.atn.value = b

---------------------------------------------------------------------------
(* Properties *)

\* C1: a webhook request whose chat id differs from the configured
\* authorized chat id makes no classification (LLM) call and no
\* document-store write, whatever its text.
C1_UnauthorizedNoCore == SenderDiffers => NoCoreCalls

C1_Witness ==
    /\ SenderDiffers
    /\ data.text = Str(T_BUY)
    /\ out.response.status = "unauthorized"
    /\ NoCoreCalls

\* C2: process_with_claude fails closed: whatever the LLM call does
\* (network error, non-2xx status, body without the expected fields, text
\* without braces, malformed JSON) it returns a classification result and
\* never raises to its caller.
C2_FailsClosed ==
    out.pwc.called =>
        /\ out.pwc.exc = ""
        /\ out.pwc.path \in FallbackPaths \cup {"parsed"}
        /\ out.pwc.path \in FallbackPaths =>
              DOMAIN out.pwc.value =
                  {"tasks", "ideas", "categories", "priority", "deadline",
                   "content_type", "cleaned_summary"}
        /\ env.llm.kind \in {"network_error", "http_error", "bad_body"} =>
              out.pwc.path = "request_fallback"

C2_Witness ==
    /\ out.pwc.called
    /\ env.llm.kind = "http_error"
    /\ out.pwc.exc = ""
    /\ out.pwc.path = "request_fallback"

\* C3 as stated: in every fallback, of either kind, the result carries the
\* original text with category general and has the text as its task if
\* and only if the text contains a trigger word, and no task otherwise.
C3_TriggerWordsInEveryFallback ==
    FellBack =>
        /\ out.pwc.value.cleaned_summary = ClassifiedText
        /\ out.pwc.value.content_type = Str(T_general)
        /\ out.pwc.value.tasks =
              List(IF HasTrigger(ClassifiedText.v) THEN <<ClassifiedText>> ELSE <<>>)

\* C3 amended: every fallback carries the original text with category
\* general; when the model's text cannot be parsed the text is a task if
\* and only if it contains a trigger word (in any letter case); when the
\* request fails (network error, non-2xx status, body without the expected
\* fields) the text is always a task.
C3_FallbackByKind ==
    FellBack =>
        /\ out.pwc.value.cleaned_summary = ClassifiedText
        /\ out.pwc.value.content_type = Str(T_general)
        /\ out.pwc.path = "parse_fallback" =>
              out.pwc.value.tasks =
                  List(IF HasTrigger(ClassifiedText.v) THEN <<ClassifiedText>> ELSE <<>>)
        /\ out.pwc.path = "request_fallback" =>
              out.pwc.value.tasks = List(<<ClassifiedText>>)
        /\ env.llm.kind \in {"network_error", "http_error", "bad_body"} <=>
              out.pwc.path = "request_fallback"

C3_Witness ==
    /\ FellBack
    /\ out.pwc.path = "parse_fallback"
    /\ env.llm.content = Str(<<"{", "m">>)
    /\ ClassifiedText = Str(T_BUY)
    /\ out.pwc.value.tasks = List(<<Str(T_BUY)>>)

\* C4: in the webhook handler the classification and the document-store
\* write are invoked only when the text is non-empty and does not start
\* with "/".
C4_CoreOnlyOnPlainText ==
    (IsWebhook /\ ~NoCoreCalls) => (data.shape = "ok" /\ PlainText(data.text))

C4_Witness ==
    /\ IsWebhook
    /\ data.shape = "ok"
    /\ ~SenderDiffers
    /\ data.text = Str(T_start)
    /\ out.response = [status |-> "command_ignored", code |-> 200]
    /\ NoCoreCalls

\* C5 as stated: an authorized request whose classification fails always
\* gets the confirmation reply and never an error reply.
C5_AlwaysConfirmation ==
    (IsWebhook /\ FellBack) => ReplyKinds = {"confirmation"}

\* C5 amended: a classification failure is never by itself surfaced as
\* an error: the request is not answered with the handler's error
\* response, the write is attempted, and the reply is the confirmation
\* when the write succeeds and the write-failure marker when it fails.
C5_FailureNotSurfaced ==
    (IsWebhook /\ FellBack) =>
        /\ out.caught = ""
        /\ out.response.status # "error"
        /\ Called(out, "notion.post")
        /\ env.notion = "ok" => ReplyKinds = {"confirmation"}
        /\ env.notion # "ok" => ReplyKinds = {"failure"}

C5_Witness ==
    /\ IsWebhook
    /\ FellBack
    /\ env.llm.kind = "network_error"
    /\ env.notion = "ok"
    /\ ReplyKinds = {"confirmation"}
    /\ out.response.status = "success"

\* C6: add_to_notion returns false exactly when the document-store call is
\* rejected or unreachable; a false result is followed by the failure
\* marker and never the confirmation, a true result by the confirmation
\* and never the failure marker; a reply is sent only after the write.
C6_ReplyFollowsWriteResult ==
    /\ route # "" =>
          /\ WriteReturned(FALSE) <=> env.notion \in {"rejected", "unreachable"}
          /\ WriteReturned(TRUE) <=> env.notion = "ok"
    /\ IsWebhook =>
          /\ WriteReturned(FALSE) => ReplyKinds = {"failure"}
          /\ WriteReturned(TRUE) => ReplyKinds = {"confirmation"}
          /\ \A i \in ReplyIndexes :
                /\ \E j \in 1..(i - 1) : out.calls[j].call = "notion.post"
                /\ i = Len(out.calls)

C6_Witness ==
    /\ IsWebhook
    /\ WriteReturned(FALSE)
    /\ env.notion = "rejected"
    /\ out.calls[Len(out.calls)].kind = "failure"
    /\ out.response = [status |-> "notion_error", code |-> 500]

NeutralResponse ==
    /\ out.response.code = 200
    /\ out.response.status \in {"ignored", "no_text", "unauthorized"}
    /\ ~out.raised
    /\ out.caught = ""

\* C8 as stated: a payload with no message key, or a message with no text,
\* is acknowledged with a neutral status, with no reply and no core call.
C8_MalformedIgnored ==
    (IsWebhook /\ (data.shape = "no_message"
                    \/ (data.shape \in {"no_chat", "ok"} /\ data.text.t = "absent"))) =>
        (NeutralResponse /\ out.calls = <<>> /\ NoCoreCalls)

\* C8 amended: a payload with no message key, or a message that has a
\* chat id and no text (missing or empty), is acknowledged with a neutral
\* status, with no reply and no core call.
C8_MalformedWithChatIgnored ==
    (IsWebhook /\ (data.shape = "no_message"
                    \/ (data.shape = "ok" /\ data.text \in {Absent, Str(<<>>)}))) =>
        (NeutralResponse /\ out.calls = <<>> /\ NoCoreCalls)

C8_Witness ==
    /\ IsWebhook
    /\ data.shape = "ok"
    /\ data.text = Absent
    /\ out.response = [status |-> "no_text", code |-> 200]
    /\ out.calls = <<>>

\* every webhook request is answered by the handler itself
WebhookAnswered ==
    IsWebhook =>
        /\ ~out.raised
        /\ out.response.code \in {200, 500}
        /\ out.response.status # ""

\* C9: every webhook request, whatever its payload and the outcomes of the
\* LLM, document-store and reply calls, ends with an HTTP response and the
\* handler never raises, also after earlier requests have failed; and no
\* request changes the module state that later requests read.
C9_NoFailurePropagates ==
    /\ [](WebhookAnswered)
    /\ [][AUTHORIZED_CHAT_ID' = AUTHORIZED_CHAT_ID]_vars

C9_Witness ==
    /\ IsWebhook
    /\ earlierFailed
    /\ out.response = [status |-> "success", code |-> 200]
    /\ env.llm.content = Str(<<"{", "m", "}">>)

\* C10: with no authorized chat id configured (unset or empty) a non-empty
\* non-command text from any chat id is classified and handed to the
\* document-store write, and the page is posted whenever it can be built;
\* a sender is turned away only when an authorized id is configured.
C10_NoIdNoRestriction ==
    IsWebhook =>
        /\ (~Truthy(AUTHORIZED_CHAT_ID) /\ data.shape = "ok" /\ PlainText(data.text)) =>
              /\ out.pwc.called
              /\ Called(out, "openrouter.post")
              /\ out.atn.called
              /\ out.atn.exc = "" => Called(out, "notion.post")
        /\ out.response.status = "unauthorized" => Truthy(AUTHORIZED_CHAT_ID)

C10_Witness ==
    /\ IsWebhook
    /\ AUTHORIZED_CHAT_ID = Null
    /\ data.id = 9
    /\ data.text = Str(T_window)
    /\ Called(out, "notion.post")
    /\ out.response.status = "success"

====
